---- MODULE Spec2Model ----
(***************************************************************************)
(* BigtableNodeStorage (src/sentry/nodestore/bigtable/backend.py): a node  *)
(* store that splits a JSON blob over the columns of one Bigtable row and  *)
(* emulates a per-row TTL by stamping the cells in the future.             *)
(*                                                                         *)
(* Time is counted in ticks, TicksPerSecond ticks to the second (the code  *)
(* has microseconds).  A blob is the byte sequence json_dumps produces; a  *)
(* byte is a one-character string.  The row of an id is the function from  *)
(* the columns present in column family x to their newest cell.            *)
(***************************************************************************)
EXTENDS Integers, Sequences, FiniteSets, TLC

\* ---- bounds of the model ----
\* bytes per chunk column (the code: 10 MiB) and largest blob (the code: 100 MiB)
bytes_per_column == 2
max_size == 4
\* longest string handed to set
MaxDataLen == 3
\* the clock stops here
MaxTime == 2
\* clock resolution
TicksPerSecond == 2
\* bigtable.Client constructions counted up to here
MaxClients == 2

\* ---- program constants ----
SECONDS_PER_DAY == 86400
\* 2^32 - 1 = UINT_MAX_DAYS * SECONDS_PER_DAY + UINT_MAX_SECONDS, the largest '<I' value
UINT_MAX_DAYS == 49710
UINT_MAX_SECONDS == 23295

\* Python's None, where the other values are sequences; Some(x) wraps a value
\* that may itself be empty; NoName stands for None among strings
None == << >>
Some(x) == << x >>
NoName == "-"
\* the rows of the table; the callers of this run use the ids of OpIds
Ids == {"id1", "id2"}
OpIds == {"id1"}
Threads == {"t1", "t2"}
Letters == {"a"}
Quote == "q"

BoundedSeq(S, n) == UNION {[1..k -> S] : k \in 0..n}

\* the values handed to set: JSON strings
Data == BoundedSeq(Letters, MaxDataLen)

\* ---- serialization ----
json_dumps(data) == <<Quote>> \o data \o <<Quote>>

ValueError == << "ValueError" >>

json_loads(bytes) ==
    IF /\ Len(bytes) >= 2
       /\ bytes[1] = Quote
       /\ bytes[Len(bytes)] = Quote
       /\ \A i \in 2..(Len(bytes) - 1) : bytes[i] \in Letters
    THEN SubSeq(bytes, 2, Len(bytes) - 1)
    ELSE ValueError

\* a slice that stops one byte early
Slice_short(bytes, lo, hi) ==
    IF lo >= Len(bytes)
    THEN << >>
    ELSE SubSeq(bytes, lo + 1, IF hi - 1 < Len(bytes) THEN hi - 1 ELSE Len(bytes))

\* Python's bytes[lo:hi], 0-based, clamped to the sequence
Slice(bytes, lo, hi) ==
    IF lo >= Len(bytes)
    THEN << >>
    ELSE SubSeq(bytes, lo + 1, IF hi < Len(bytes) THEN hi ELSE Len(bytes))

\* ---- class attributes ----
columns == [i \in 1..(max_size \div bytes_per_column) |-> ToString(i - 1)]

ttl_column == "t"

\* ---- timedelta ----
\* normalized as Python does: 0 <= seconds < SECONDS_PER_DAY, 0 <= ticks < TicksPerSecond
timedelta(d, s, k) == << d, s, k >>
days(td) == td[1]
seconds(td) == td[2]
ticks(td) == td[3]

\* bool(x) of `ttl or self.default_ttl`
truthy(ttl) ==
    /\ ttl # None
    /\ (days(ttl) # 0 \/ seconds(ttl) # 0 \/ ticks(ttl) # 0)

total_ticks(ttl) ==
    (days(ttl) * SECONDS_PER_DAY + seconds(ttl)) * TicksPerSecond + ticks(ttl)

\* int(ttl.total_seconds()): truncation toward zero
int_total_seconds(ttl) ==
    LET tt == total_ticks(ttl)
    IN  IF tt >= 0 THEN tt \div TicksPerSecond ELSE 0 - ((0 - tt) \div TicksPerSecond)

\* struct.pack('<I', v) accepts 0 <= v <= 2^32 - 1, compared by (days, seconds)
\* because 2^32 is no TLC integer
pack_I_fits(ttl) ==
    IF days(ttl) < 0
    THEN int_total_seconds(ttl) >= 0
    ELSE \/ days(ttl) < UINT_MAX_DAYS
         \/ days(ttl) = UINT_MAX_DAYS /\ seconds(ttl) <= UINT_MAX_SECONDS

struct_pack_I(v) ==
    << v % 256, (v \div 256) % 256, (v \div 65536) % 256, (v \div 16777216) % 256 >>

\* ---- the store: rows of column family x ----
NoRow == << >>

delete_from_row == [type |-> "delete", column |-> NoName, value |-> None, timestamp |-> None]

set_cell(column, value, timestamp) ==
    [type |-> "set_cell", column |-> column, value |-> value, timestamp |-> timestamp]

\* a row delete that removes the cells stamped up to the server's clock and
\* leaves those stamped after it
apply_mutation_delete_upto_now(cells, m, server_time) ==
    IF m.type = "delete"
    THEN [c \in {d \in DOMAIN cells : cells[d].timestamp > server_time} |-> cells[c]]
    ELSE LET ts == IF m.timestamp = None THEN server_time ELSE m.timestamp[1]
             new == [value |-> m.value, timestamp |-> ts]
         IN  [c \in (DOMAIN cells) \cup {m.column} |->
                 IF c # m.column THEN cells[c]
                 ELSE IF c \in DOMAIN cells /\ cells[c].timestamp > ts THEN cells[c]
                 ELSE new]

\* a row delete that removes nothing
apply_mutation_no_delete(cells, m, server_time) ==
    IF m.type = "delete"
    THEN cells
    ELSE LET ts == IF m.timestamp = None THEN server_time ELSE m.timestamp[1]
             new == [value |-> m.value, timestamp |-> ts]
         IN  [c \in (DOMAIN cells) \cup {m.column} |->
                 IF c # m.column THEN cells[c]
                 ELSE IF c \in DOMAIN cells /\ cells[c].timestamp > ts THEN cells[c]
                 ELSE new]

\* a row delete that leaves the TTL column behind
apply_mutation_partial_delete(cells, m, server_time) ==
    IF m.type = "delete"
    THEN [c \in (DOMAIN cells) \cap {ttl_column} |-> cells[c]]
    ELSE LET ts == IF m.timestamp = None THEN server_time ELSE m.timestamp[1]
             new == [value |-> m.value, timestamp |-> ts]
         IN  [c \in (DOMAIN cells) \cup {m.column} |->
                 IF c # m.column THEN cells[c]
                 ELSE IF c \in DOMAIN cells /\ cells[c].timestamp > ts THEN cells[c]
                 ELSE new]

\* one mutation of a row; a cell written with timestamp None is stamped by the
\* server with its clock, and the newest version of a column is the one read
apply_mutation(cells, m, server_time) ==
    IF m.type = "delete"
    THEN NoRow
    ELSE LET ts == IF m.timestamp = None THEN server_time ELSE m.timestamp[1]
             new == [value |-> m.value, timestamp |-> ts]
         IN  [c \in (DOMAIN cells) \cup {m.column} |->
                 IF c # m.column THEN cells[c]
                 ELSE IF c \in DOMAIN cells /\ cells[c].timestamp > ts THEN cells[c]
                 ELSE new]

RECURSIVE mutate_rows(_, _, _)
\* the mutations of one row, applied in order as one atomic step
mutate_rows(cells, mutations, server_time) ==
    IF mutations = << >>
    THEN cells
    ELSE mutate_rows(apply_mutation(cells, Head(mutations), server_time),
                     Tail(mutations), server_time)

\* ---- set: the row mutation it builds ----
RECURSIVE set_chunks_from_one(_, _, _, _)
\* a loop that numbers the chunks from 1: chunk idx goes to the column after its own
set_chunks_from_one(mutations, data, ts, idx) ==
    IF idx + 1 >= Len(columns)
    THEN mutations
    ELSE LET offset == idx * bytes_per_column
             chunk == Slice(data, offset, offset + bytes_per_column)
         IN  IF Len(chunk) = 0
             THEN mutations
             ELSE set_chunks_from_one(Append(mutations, set_cell(columns[idx + 2], chunk, ts)),
                                      data, ts, idx + 1)

RECURSIVE set_chunks_offset_idx(_, _, _, _)
\* a loop that slices from the column index instead of idx * bytes_per_column
set_chunks_offset_idx(mutations, data, ts, idx) ==
    IF idx >= Len(columns)
    THEN mutations
    ELSE LET offset == idx
             chunk == Slice(data, offset, offset + bytes_per_column)
         IN  IF Len(chunk) = 0
             THEN mutations
             ELSE set_chunks_offset_idx(Append(mutations, set_cell(columns[idx + 1], chunk, ts)),
                                        data, ts, idx + 1)

RECURSIVE set_chunks(_, _, _, _)
\* the loop over self.columns from index idx on
set_chunks(mutations, data, ts, idx) ==
    IF idx >= Len(columns)
    THEN mutations
    ELSE LET offset == idx * bytes_per_column
             chunk == Slice(data, offset, offset + bytes_per_column)
         IN  IF Len(chunk) = 0
             THEN mutations
             ELSE set_chunks(Append(mutations, set_cell(columns[idx + 1], chunk, ts)),
                             data, ts, idx + 1)

\* a resolution that falls back to a zero TTL instead of None
resolve_ttl_zero(ttl, dflt) ==
    IF truthy(ttl) THEN ttl ELSE IF dflt # None THEN dflt ELSE timedelta(0, 0, 0)

\* `ttl or self.default_ttl`
resolve_ttl(ttl, dflt) == IF truthy(ttl) THEN ttl ELSE dflt

\* set without its row.delete(): the cells are written over the existing row
set_mutations_no_delete(data, ttl_arg, dflt, clock) ==
    LET ttl == resolve_ttl(ttl_arg, dflt)
    IN  IF ttl = None
        THEN [status |-> "ok",
              mutations |-> set_chunks(<< >>, json_dumps(data), None, 0)]
        ELSE IF ~pack_I_fits(ttl)
        THEN [status |-> "struct.error", mutations |-> << >>]
        ELSE LET ts == Some(clock + total_ticks(ttl))
                 meta == set_cell(ttl_column, struct_pack_I(int_total_seconds(ttl)), ts)
             IN  [status |-> "ok",
                  mutations |-> set_chunks(<<meta>>, json_dumps(data), ts, 0)]

\* a set that leaves the stamp of the TTL cell to the server
set_mutations_meta_unstamped(data, ttl_arg, dflt, clock) ==
    LET ttl == resolve_ttl(ttl_arg, dflt)
    IN  IF ttl = None
        THEN [status |-> "ok",
              mutations |-> set_chunks(<<delete_from_row>>, json_dumps(data), None, 0)]
        ELSE IF ~pack_I_fits(ttl)
        THEN [status |-> "struct.error", mutations |-> << >>]
        ELSE LET ts == Some(clock + total_ticks(ttl))
                 meta == set_cell(ttl_column, struct_pack_I(int_total_seconds(ttl)), None)
             IN  [status |-> "ok",
                  mutations |-> set_chunks(<<delete_from_row, meta>>, json_dumps(data), ts, 0)]

\* what set has built when it reaches mutate_rows, or the exception that stops it
set_mutations(data, ttl_arg, dflt, clock) ==
    LET ttl == resolve_ttl(ttl_arg, dflt)
    IN  IF ttl = None
        THEN [status |-> "ok",
              mutations |-> set_chunks(<<delete_from_row>>, json_dumps(data), None, 0)]
        ELSE IF ~pack_I_fits(ttl)
        THEN [status |-> "struct.error", mutations |-> << >>]
        ELSE LET ts == Some(clock + total_ticks(ttl))
                 meta == set_cell(ttl_column, struct_pack_I(int_total_seconds(ttl)), ts)
             IN  [status |-> "ok",
                  mutations |-> set_chunks(<<delete_from_row, meta>>, json_dumps(data), ts, 0)]

\* ---- get: what it computes from the row it read ----
RECURSIVE get_walk(_, _, _, _, _)
\* the loop over self.columns from index idx on
get_walk(cells, has_ttl, clock, data, idx) ==
    IF idx >= Len(columns) \/ columns[idx + 1] \notin DOMAIN cells
    THEN LET v == json_loads(data)
         IN  [path |-> "decoded", status |-> IF v = ValueError THEN "ValueError" ELSE "ok",
              ret |-> IF v = ValueError THEN None ELSE Some(v)]
    ELSE LET cell == cells[columns[idx + 1]]
         IN  IF has_ttl /\ cell.timestamp < clock
             THEN [path |-> "expired", status |-> "ok", ret |-> None]
             ELSE get_walk(cells, has_ttl, clock, data \o cell.value, idx + 1)

\* get without the TTL check
get_row_no_expiry(cells, clock) ==
    IF DOMAIN cells = {}
    THEN [path |-> "missing", status |-> "ok", ret |-> None]
    ELSE get_walk(cells, FALSE, clock, << >>, 0)

get_row(cells, clock) ==
    IF DOMAIN cells = {}
    THEN [path |-> "missing", status |-> "ok", ret |-> None]
    ELSE get_walk(cells, ttl_column \in DOMAIN cells, clock, << >>, 0)

\* ---- state ----
VARIABLES
    rows,              \* id -> cells of the row
    now,               \* the clock, timezone.now() and the server's
    table,             \* "missing", or the schema of the table
    automatic_expiry,  \* constructor argument
    default_ttl,       \* constructor argument
    instance_dict,     \* vars(self): what memoize has stored under "connection"
    clients_created,   \* bigtable.Client(...) constructions by connection
    pc,                \* thread -> where its call stands
    req,               \* thread -> the call it is in
    last,              \* the call that returned last, with its outcome
    written,           \* id -> the arguments and time of the last set the store took, if not deleted since
    fate               \* id -> "unwritten", or what became of the last set: "intact", "swept", "deleted"

vars == << rows, now, table, automatic_expiry, default_ttl, instance_dict,
           clients_created, pc, req, last, written, fate >>

MaxAge0 == "MaxAgeGCRule(timedelta(0))"
NoRule == "None"
Missing == [exists |-> FALSE, gc_rule |-> NoRule]
Table(gc_rule) == [exists |-> TRUE, gc_rule |-> gc_rule]

\* the ttl arguments tried: none, 0 s, 1/TicksPerSecond s, -1/TicksPerSecond s,
\* -1 s and 2^32 s
TTLs ==
    { None,
      timedelta(0, 0, 0),
      timedelta(0, 0, 1),
      timedelta(-1, SECONDS_PER_DAY - 1, TicksPerSecond - 1),
      timedelta(-1, SECONDS_PER_DAY - 1, 0),
      timedelta(UINT_MAX_DAYS, UINT_MAX_SECONDS + 1, 0) }

DefaultTTLs == { None, timedelta(0, 1, 0) }

NoCall == [op |-> NoName, id |-> NoName, data |-> None, ttl |-> None]

Call(op, id, data, ttl) == [op |-> op, id |-> id, data |-> data, ttl |-> ttl]

Outcome(op, id, status, ret, path) ==
    [op |-> op, id |-> id, status |-> status, ret |-> ret, path |-> path]

\* a row the table may hold from an earlier process: none, or what
\* set(id, "a") wrote at time 0 under a default TTL of one second
PriorRows ==
    { NoRow,
      mutate_rows(NoRow, set_mutations(<<"a">>, None, timedelta(0, 1, 0), 0).mutations, 0) }

Init ==
    /\ table \in {Missing, Table(NoRule), Table(MaxAge0)}
    /\ rows \in [Ids -> PriorRows]
    /\ \A id \in Ids : rows[id] # NoRow => table.exists /\ id \notin OpIds
    /\ now = 0
    /\ automatic_expiry \in BOOLEAN
    /\ default_ttl \in DefaultTTLs
    /\ instance_dict = NoName
    /\ clients_created = 0
    /\ pc = [t \in Threads |-> "idle"]
    /\ req = [t \in Threads |-> NoCall]
    /\ last = Outcome(NoName, NoName, NoName, None, NoName)
    /\ written = [id \in Ids |-> None]
    /\ fate = [id \in Ids |-> "unwritten"]

\* ---- the memoized connection ----
\* memoize: the value stored on the instance if there is one, else the function's
memoize(stored, made) == IF stored # NoName THEN stored ELSE made

\* a connection property without memoize: every access constructs a client
connection_unmemoized ==
    /\ instance_dict' = "table"
    /\ clients_created' = IF clients_created < MaxClients
                          THEN clients_created + 1
                          ELSE clients_created

\* self.connection: the client is constructed only when nothing is stored
connection ==
    /\ instance_dict' = memoize(instance_dict, "table")
    /\ clients_created' = IF memoize(instance_dict, "new") = "new"
                          THEN clients_created + 1
                          ELSE clients_created

\* ---- what a call does to the store and returns ----
config == << table, automatic_expiry, default_ttl >>
threads == << pc, req >>

\* bytes a row can hold: one chunk of bytes_per_column in each column
Capacity == bytes_per_column * Len(columns)

\* the set of `data` replaces a blob that fitted and was longer
Shrinks(before, data) ==
    /\ before # None
    /\ Len(json_dumps(before[1].data)) <= Capacity
    /\ Len(json_dumps(data)) < Len(json_dumps(before[1].data))

\* what a set finds in the row it replaces: nothing, a row without TTL cell, or
\* a row with one
Replaces(cells) ==
    IF DOMAIN cells = {} THEN "nothing"
    ELSE IF ttl_column \in DOMAIN cells THEN "ttl" ELSE "permanent"

\* the callers inside a set of id, and those of them whose blob length and ttl
\* both differ from the given ones
InSet(id) == {t \in Threads : req[t].op = "set" /\ req[t].id = id}
Rivals(id, data, ttl) ==
    {t \in InSet(id) : Len(req[t].data[1]) # Len(data) /\ req[t].ttl # ttl}

\* the set of `data` reaches the store while such a rival set is in flight, or
\* is the rival that was in flight when the set before it reached the store
Raced(before, id, data, ttl) ==
    \/ Rivals(id, data, ttl) # {}
    \/ /\ before # None
       /\ before[1].raced
       /\ Cardinality(InSet(id)) = 1
       /\ Len(before[1].data) # Len(data)
       /\ before[1].ttl # ttl

do_set(id, data, ttl) ==
    LET m == set_mutations(data, ttl, default_ttl, now)
    IN  /\ IF m.status = "ok"
           THEN /\ rows' = [rows EXCEPT ![id] = mutate_rows(rows[id], m.mutations, now)]
                /\ written' = [written EXCEPT ![id] =
                       Some([data |-> data, ttl |-> ttl, t |-> now,
                             shrunk |-> Shrinks(written[id], data),
                             raced |-> Raced(written[id], id, data, ttl),
                             over |-> Replaces(rows[id])])]
                /\ fate' = [fate EXCEPT ![id] = "intact"]
           ELSE UNCHANGED << rows, written, fate >>
        /\ last' = Outcome("set", id, m.status, None, NoName)

\* a get that deletes the row it finds expired
do_get_evicts(id) ==
    /\ LET r == get_row(rows[id], now)
       IN  /\ last' = Outcome("get", id, r.status, r.ret, r.path)
           /\ rows' = IF r.path = "expired" THEN [rows EXCEPT ![id] = NoRow] ELSE rows
    /\ UNCHANGED << written, fate >>

do_get(id) ==
    /\ LET r == get_row(rows[id], now)
       IN  last' = Outcome("get", id, r.status, r.ret, r.path)
    /\ UNCHANGED << rows, written, fate >>

do_delete(id) ==
    /\ rows' = [rows EXCEPT ![id] = mutate_rows(rows[id], <<delete_from_row>>, now)]
    /\ written' = [written EXCEPT ![id] = None]
    /\ fate' = [fate EXCEPT ![id] = "deleted"]
    /\ last' = Outcome("delete", id, "ok", None, NoName)

\* ---- the operations, one caller at a time ----
set(id, data, ttl) ==
    /\ table.exists
    /\ connection
    /\ do_set(id, data, ttl)
    /\ UNCHANGED << now, config, threads >>

get(id) ==
    /\ table.exists
    /\ connection
    /\ do_get(id)
    /\ UNCHANGED << now, config, threads >>

delete(id) ==
    /\ table.exists
    /\ connection
    /\ do_delete(id)
    /\ UNCHANGED << now, config, threads >>

\* a cleanup that deletes the rows whose cells are all older than the cutoff
cleanup_deletes(cutoff_timestamp) ==
    /\ connection
    /\ rows' = [id \in Ids |->
                   IF \A c \in DOMAIN rows[id] : rows[id][c].timestamp < cutoff_timestamp
                   THEN NoRow ELSE rows[id]]
    /\ last' = Outcome("cleanup", NoName, "ok", None, NoName)
    /\ UNCHANGED << now, config, threads, written, fate >>

cleanup(cutoff_timestamp) ==
    /\ last' = Outcome("cleanup", NoName, "NotImplementedError", None, NoName)
    /\ UNCHANGED << rows, now, config, instance_dict, clients_created, threads, written, fate >>

\* a bootstrap that sets the schema of its own configuration on a table that exists
bootstrap_recreate ==
    /\ table' = Table(IF automatic_expiry THEN MaxAge0 ELSE NoRule)
    /\ last' = Outcome("bootstrap", NoName, "ok", None, NoName)
    /\ UNCHANGED << rows, now, automatic_expiry, default_ttl, instance_dict,
                    clients_created, threads, written, fate >>

bootstrap ==
    /\ table' = IF table.exists
                THEN table
                ELSE Table(IF automatic_expiry THEN MaxAge0 ELSE NoRule)
    /\ last' = Outcome("bootstrap", NoName, "ok", None, NoName)
    /\ UNCHANGED << rows, now, automatic_expiry, default_ttl, instance_dict,
                    clients_created, threads, written, fate >>

\* ---- the environment ----
Tick ==
    /\ now < MaxTime
    /\ now' = now + 1
    /\ last' = Outcome("tick", NoName, NoName, None, NoName)
    /\ UNCHANGED << rows, config, instance_dict, clients_created, threads, written, fate >>

\* the store's garbage collection under the age-zero rule: a cell whose timestamp
\* has passed may be removed, one cell at a time
gc(id, column) ==
    /\ table.exists
    /\ table.gc_rule = MaxAge0
    /\ column \in DOMAIN rows[id]
    /\ rows[id][column].timestamp < now
    /\ rows' = [rows EXCEPT ![id] = [c \in (DOMAIN rows[id]) \ {column} |-> rows[id][c]]]
    /\ fate' = [fate EXCEPT ![id] = IF written[id] = None THEN fate[id] ELSE "swept"]
    /\ last' = Outcome("gc", id, NoName, None, NoName)
    /\ UNCHANGED << now, config, instance_dict, clients_created, threads, written >>

ColumnNames == {ttl_column} \cup {columns[i] : i \in 1..Len(columns)}

Next ==
    \/ \E id \in OpIds, data \in Data, ttl \in TTLs : set(id, data, ttl)
    \/ \E id \in OpIds : get(id)
    \/ \E id \in OpIds : delete(id)
    \/ \E cutoff \in 0..MaxTime : cleanup(cutoff)
    \/ bootstrap
    \/ Tick

Spec == Init /\ [][Next]_vars

\* ---- with the store's garbage collection running ----
NextGC ==
    \/ \E id \in OpIds, data \in Data, ttl \in TTLs : set(id, data, ttl)
    \/ \E id \in OpIds : get(id)
    \/ \E id \in OpIds : delete(id)
    \/ bootstrap
    \/ Tick
    \/ \E id \in Ids, column \in ColumnNames : gc(id, column)

SpecGC == Init /\ [][NextGC]_vars

\* ---- concurrent callers on one instance ----
\* the blobs set concurrently: the shortest, and one that fills every column
ConcData == { << >>, [i \in 1..(Capacity - Len(json_dumps(<< >>))) |-> "a"] }
ConcTTLs == { None, timedelta(0, 0, 1) }

\* a call is entered, reads self.connection, then makes its one round trip
enter(t, op, id, data, ttl) ==
    /\ table.exists
    /\ pc[t] = "idle"
    /\ pc' = [pc EXCEPT ![t] = "connection"]
    /\ req' = [req EXCEPT ![t] = Call(op, id, data, ttl)]
    /\ UNCHANGED << rows, now, config, instance_dict, clients_created, last, written, fate >>

connect(t) ==
    /\ pc[t] = "connection"
    /\ connection
    /\ pc' = [pc EXCEPT ![t] = "round trip"]
    /\ UNCHANGED << rows, now, config, req, last, written, fate >>

round_trip(t) ==
    /\ pc[t] = "round trip"
    /\ CASE req[t].op = "set" -> do_set(req[t].id, req[t].data[1], req[t].ttl)
         [] req[t].op = "get" -> do_get(req[t].id)
         [] req[t].op = "delete" -> do_delete(req[t].id)
    /\ pc' = [pc EXCEPT ![t] = "idle"]
    /\ req' = [req EXCEPT ![t] = NoCall]
    /\ UNCHANGED << now, config, instance_dict, clients_created >>

NextConc ==
    \/ \E t \in Threads, id \in OpIds, data \in ConcData, ttl \in ConcTTLs :
           enter(t, "set", id, Some(data), ttl)
    \/ \E t \in Threads, id \in OpIds : enter(t, "get", id, None, None)
    \/ \E t \in Threads, id \in OpIds : enter(t, "delete", id, None, None)
    \/ \E t \in Threads : connect(t)
    \/ \E t \in Threads : round_trip(t)

SpecConc == Init /\ [][NextConc]_vars

\* ---- properties ----
\* the last set on id, and the blob it serialized
W(id) == written[id][1]
Blob(id) == json_dumps(W(id).data)

\* the TTL of the last set on id: the requested one, or the default when none
\* (or a zero one) was requested; None when there is neither
TTLOf(id) ==
    IF W(id).ttl # None /\ W(id).ttl # timedelta(0, 0, 0) THEN W(id).ttl ELSE default_ttl

ChunkColumns(cells) == (DOMAIN cells) \ {ttl_column}

CeilDiv(n, d) == (n + d - 1) \div d

\* the row of id has not logically expired: no TTL, or the clock has not passed T + ttl
Unexpired(id) == TTLOf(id) = None \/ now <= W(id).t + total_ticks(TTLOf(id))

GetReturned(id) == last.op = "get" /\ last.id = id

\* C1 (full replace): after set(id, b1) followed by set(id, b2) with
\* len(b2) < len(b1) <= chunkSize * maxChunks, the row holds exactly the chunk
\* columns of b2, none with index >= ceil(len(b2) / chunkSize), and a get of the
\* row before it expires returns b2.
C1_FullReplace ==
    \A id \in OpIds :
        (written[id] # None /\ W(id).shrunk) =>
            /\ ChunkColumns(rows[id]) =
                   {columns[i] : i \in 1..CeilDiv(Len(Blob(id)), bytes_per_column)}
            /\ \A i \in 1..CeilDiv(Len(Blob(id)), bytes_per_column) :
                   rows[id][columns[i]].value =
                       Slice(Blob(id), (i - 1) * bytes_per_column, i * bytes_per_column)
            /\ (GetReturned(id) /\ Unexpired(id)) =>
                   last.status = "ok" /\ last.ret = Some(W(id).data)

\* a smaller blob has replaced one of more chunk columns and has been read back
C1_Witness ==
    \E id \in OpIds :
        /\ written[id] # None
        /\ W(id).shrunk
        /\ CeilDiv(Len(Blob(id)), bytes_per_column) < Len(columns)
        /\ GetReturned(id)
        /\ last.ret = Some(W(id).data)

\* the chunk cells of a row from column index i on, as get walks them
RECURSIVE Joined(_, _)
Joined(cells, i) ==
    IF i > Len(columns) \/ columns[i] \notin DOMAIN cells
    THEN << >>
    ELSE cells[columns[i]].value \o Joined(cells, i + 1)

\* C2 (round trip): for every blob b that set can serialize with
\* len(b) <= chunkSize * maxChunks, the chunk cells set(id, b) wrote, joined by
\* increasing column index, are b, and a get before expiry or delete returns b.
C2_RoundTrip ==
    \A id \in OpIds :
        (written[id] # None /\ Len(Blob(id)) <= Capacity) =>
            /\ Joined(rows[id], 1) = Blob(id)
            /\ (GetReturned(id) /\ Unexpired(id)) =>
                   last.status = "ok" /\ last.ret = Some(W(id).data)

\* a blob that fills every column has been read back
C2_Witness ==
    \E id \in OpIds :
        /\ written[id] # None
        /\ Len(Blob(id)) = Capacity
        /\ Len(columns) * bytes_per_column = Capacity
        /\ GetReturned(id)
        /\ last.ret = Some(W(id).data)

\* C3 (oversize rejection): a set whose blob is longer than
\* chunkSize * maxChunks fails before any store I/O, so no set the store has
\* taken has a blob over the capacity and no truncated prefix is stored.
C3_OversizeRejected ==
    \A id \in OpIds :
        written[id] # None =>
            /\ Len(Blob(id)) <= Capacity
            /\ Joined(rows[id], 1) = Blob(id)

\* C4 (logical TTL expiry): after set(id, b, ttl) at time T with a resolved
\* ttl, a get at now > T + ttl with no set on id in between returns absent
\* while the cells of the row are still all in the store.
C4_LogicalExpiry ==
    \A id \in OpIds :
        ( /\ GetReturned(id)
          /\ written[id] # None
          /\ fate[id] = "intact"
          /\ TTLOf(id) # None
          /\ now > W(id).t + total_ticks(TTLOf(id)) ) =>
            /\ last.status = "ok"
            /\ last.ret = None
            /\ last.path = "expired"
            /\ ttl_column \in DOMAIN rows[id]
            /\ ChunkColumns(rows[id]) # {}

\* a row with a positive TTL, in a table whose GC rule could sweep it but has
\* not, is read after T + ttl
C4_Witness ==
    \E id \in OpIds :
        /\ GetReturned(id)
        /\ written[id] # None
        /\ fate[id] = "intact"
        /\ TTLOf(id) # None
        /\ total_ticks(TTLOf(id)) > 0
        /\ now > W(id).t + total_ticks(TTLOf(id))
        /\ table.gc_rule = MaxAge0
        /\ last.path = "expired"

\* C5 (expiry decided by the metadata cell): get reports a present row absent
\* if and only if the row has a TTL cell whose timestamp is before now; a row
\* of a TTL cell and no chunk columns is absent when expired and an empty blob
\* otherwise.  Stated for the rows of a set whose TTL was not negative.
C5_ExpiryByMetadataCell ==
    \A id \in OpIds :
        ( /\ GetReturned(id)
          /\ DOMAIN rows[id] # {}
          /\ written[id] # None
          /\ TTLOf(id) # None => days(TTLOf(id)) >= 0 ) =>
            ( (last.status = "ok" /\ last.ret = None)
              <=> (ttl_column \in DOMAIN rows[id] /\ rows[id][ttl_column].timestamp < now) )

\* C6 (TTL none): a set with no requested and no default TTL writes no TTL
\* cell, and no get at any later clock value treats the row as expired: it
\* returns b as long as the row's cells are in the store.
C6_NoTTLNeverExpires ==
    \A id \in OpIds :
        (written[id] # None /\ TTLOf(id) = None) =>
            /\ ttl_column \notin DOMAIN rows[id]
            /\ GetReturned(id) =>
                   /\ last.path # "expired"
                   /\ (fate[id] = "intact" /\ Len(Blob(id)) <= Capacity) =>
                          last.status = "ok" /\ last.ret = Some(W(id).data)

\* a row written without TTL is read at a later clock value
C6_Witness ==
    \E id \in OpIds :
        /\ written[id] # None
        /\ TTLOf(id) = None
        /\ now > W(id).t
        /\ GetReturned(id)
        /\ last.ret = Some(W(id).data)

\* C7 (permanent rows survive GC): no GC sweep removes a cell of a row that
\* set wrote with neither a requested nor a default TTL.
C7_PermanentSurvivesGC ==
    \A id \in OpIds :
        (written[id] # None /\ TTLOf(id) = None) => fate[id] # "swept"

\* C8 (invalid TTL rejection): a set whose resolved TTL is negative or over
\* the 32-bit unsigned range of seconds fails before any mutation, so every
\* set the store has taken has a TTL of zero or more and no cell stamped
\* before its write time.
C8_InvalidTTLRejected ==
    \A id \in OpIds :
        written[id] # None =>
            /\ TTLOf(id) # None => days(TTLOf(id)) >= 0 /\ pack_I_fits(TTLOf(id))
            /\ \A c \in DOMAIN rows[id] : rows[id][c].timestamp >= W(id).t

\* C9 (absence): get returns absent for an id never written and for an id
\* after delete; delete leaves no cell of the row; the absent result of a
\* missing row is the value returned for an expired row.
C9_Absence ==
    \A id \in OpIds :
        /\ (GetReturned(id) /\ fate[id] \in {"unwritten", "deleted"}) =>
               last.status = "ok" /\ last.ret = None /\ last.path = "missing"
        /\ (last.op = "delete" /\ last.id = id) => DOMAIN rows[id] = {}
        /\ (GetReturned(id) /\ last.path \in {"missing", "expired"}) =>
               last.status = "ok" /\ last.ret = None

\* a get after the delete of a written row
C9_Witness ==
    \E id \in OpIds :
        /\ GetReturned(id)
        /\ fate[id] = "deleted"
        /\ last.ret = None

C11_BootstrapIdempotent ==
    [][ last'.op = "bootstrap" =>
            /\ last'.status = "ok"
            /\ table'.exists
            /\ table.exists => table' = table
            /\ ~table.exists => (table'.gc_rule = MaxAge0 <=> automatic_expiry)
            /\ last.op = "bootstrap" => table' = table
            /\ rows' = rows ]_vars

\* bootstrap has returned on a table whose GC rule is not the one the
\* configuration would have created
C11_Witness ==
    /\ last.op = "bootstrap"
    /\ table.exists
    /\ (table.gc_rule = MaxAge0) # automatic_expiry

\* C12 (cleanup unsupported): cleanup can be called with every cutoff in every
\* state, always fails with the unsupported-operation error, and reads and
\* mutates nothing: rows, schema and connection are as before the call.
C12_CleanupUnsupported ==
    /\ [](\A cutoff \in 0..MaxTime : ENABLED cleanup(cutoff))
    /\ [][ last'.op = "cleanup" =>
               /\ last'.status = "NotImplementedError"
               /\ rows' = rows
               /\ table' = table
               /\ instance_dict' = instance_dict
               /\ clients_created' = clients_created ]_vars

\* cleanup has failed on a table that holds a row whose cells are all older
\* than the clock
C12_Witness ==
    /\ last.op = "cleanup"
    /\ last.status = "NotImplementedError"
    /\ \E id \in Ids :
           /\ DOMAIN rows[id] # {}
           /\ \A c \in DOMAIN rows[id] : rows[id][c].timestamp < now

\* C13 (contiguity): in every state reached by set and delete calls, the chunk
\* columns of each row are the columns named "0" to "n-1" for some
\* n <= maxChunks, with no gap.
C13_Contiguous ==
    \A id \in Ids :
        \E n \in 0..(max_size \div bytes_per_column) :
            ChunkColumns(rows[id]) = {ToString(i) : i \in 0..(n - 1)}

\* a row of one chunk column that replaced a row of more
C13_Witness ==
    \E id \in OpIds :
        /\ written[id] # None
        /\ W(id).shrunk
        /\ Cardinality(ChunkColumns(rows[id])) = 1

\* C14 (uniform effective timestamp): after a set at time T with a resolved
\* ttl, the TTL cell and every chunk cell of the row carry T + ttl; and in every
\* state reached by set and delete calls the cells of a row that has a TTL cell
\* all carry one timestamp.
C14_UniformTimestamp ==
    /\ \A id \in Ids :
           ttl_column \in DOMAIN rows[id] =>
               \A c \in DOMAIN rows[id] :
                   rows[id][c].timestamp = rows[id][ttl_column].timestamp
    /\ \A id \in OpIds :
           (written[id] # None /\ TTLOf(id) # None) =>
               /\ ttl_column \in DOMAIN rows[id]
               /\ \A c \in DOMAIN rows[id] :
                      rows[id][c].timestamp = W(id).t + total_ticks(TTLOf(id))

\* a row of a TTL cell and several chunk cells, written after time 0 with a
\* positive TTL
C14_Witness ==
    \E id \in OpIds :
        /\ written[id] # None
        /\ TTLOf(id) # None
        /\ total_ticks(TTLOf(id)) > 0
        /\ W(id).t > 0
        /\ Cardinality(ChunkColumns(rows[id])) > 1

\* C15 (TTL resolution): a set called with a requested TTL that is not
\* negative, a zero or sub-second one included, applies that TTL and writes a
\* TTL cell holding its whole seconds, stamped T + ttl; the default TTL is
\* applied only when no TTL is requested.
C15_RequestedTTLApplied ==
    \A id \in OpIds :
        (written[id] # None /\ W(id).ttl # None /\ days(W(id).ttl) >= 0) =>
            /\ ttl_column \in DOMAIN rows[id]
            /\ rows[id][ttl_column].value = struct_pack_I(int_total_seconds(W(id).ttl))
            /\ rows[id][ttl_column].timestamp = W(id).t + total_ticks(W(id).ttl)

\* C16 (chunk layout): for a blob b with len(b) <= chunkSize * maxChunks, set
\* writes exactly n = ceil(len(b) / chunkSize) chunk cells, at the columns "0"
\* to "n-1"; every chunk but the last has chunkSize bytes and the last has the
\* rest, between 1 and chunkSize bytes.
C16_ChunkLayout ==
    \A id \in OpIds :
        (written[id] # None /\ Len(Blob(id)) <= Capacity) =>
            LET n == CeilDiv(Len(Blob(id)), bytes_per_column)
                size(i) == Len(rows[id][ToString(i)].value)
            IN  /\ ChunkColumns(rows[id]) = {ToString(i) : i \in 0..(n - 1)}
                /\ \A i \in 0..(n - 2) : size(i) = bytes_per_column
                /\ n > 0 =>
                       /\ size(n - 1) = Len(Blob(id)) - (n - 1) * bytes_per_column
                       /\ size(n - 1) >= 1
                       /\ size(n - 1) <= bytes_per_column

\* a blob of several chunks whose length is no multiple of the chunk size is
\* in the store
C16_Witness ==
    \E id \in OpIds :
        /\ written[id] # None
        /\ Len(Blob(id)) <= Capacity
        /\ Len(Blob(id)) > bytes_per_column
        /\ Len(Blob(id)) % bytes_per_column # 0

\* C17 (get is non-mutating): in every state, the row expired or missing
\* included, a get leaves every row (cells, values and timestamps) and the
\* schema as they were; an expired row is still in the store after the get
\* that reported it absent.
C17_GetNonMutating ==
    [][ last'.op = "get" => rows' = rows /\ table' = table ]_vars

\* a get has reported a row absent as expired and its cells are in the store
C17_Witness ==
    \E id \in OpIds :
        /\ GetReturned(id)
        /\ last.path = "expired"
        /\ last.ret = None
        /\ ttl_column \in DOMAIN rows[id]
        /\ ChunkColumns(rows[id]) # {}

\* C18 (concurrent writers never mix): with set calls on one id in flight
\* together, each reaching the store as one atomic row mutation, the row is
\* empty or holds the complete cells of exactly one set, those that set writes
\* into an empty row; and every get in between returns absent or one of the
\* blobs in full, never a join of chunks of different writes.
C18_WritersNeverMix ==
    \A id \in OpIds :
        /\ rows[id] =
               IF written[id] = None
               THEN NoRow
               ELSE mutate_rows(NoRow,
                        set_mutations(W(id).data, W(id).ttl, default_ttl, W(id).t).mutations,
                        W(id).t)
        /\ GetReturned(id) =>
               /\ last.status = "ok"
               /\ last.ret \in {None} \cup {Some(d) : d \in ConcData}

\* two sets of different chunk counts and TTLs were in flight together, the
\* one of fewer chunks and no TTL reached the store last, and a get after both
\* has returned its blob
C18_Witness ==
    \E id \in OpIds :
        /\ written[id] # None
        /\ W(id).raced
        /\ InSet(id) = {}
        /\ W(id).ttl = None
        /\ Cardinality(ChunkColumns(rows[id])) = 1
        /\ GetReturned(id)
        /\ last.ret = Some(W(id).data)

\* C19 (expiry survives partial garbage collection): once now > T + ttl for a
\* row written with a TTL that is not negative, a get returns absent in every
\* state of an age-zero GC sweep that removes the aged cells of the row one at
\* a time in any order, whatever cells are left.
C19_ExpirySurvivesPartialGC ==
    \A id \in OpIds :
        ( /\ GetReturned(id)
          /\ written[id] # None
          /\ TTLOf(id) # None
          /\ days(TTLOf(id)) >= 0
          /\ Len(Blob(id)) <= Capacity
          /\ now > W(id).t + total_ticks(TTLOf(id)) ) =>
            last.status = "ok" /\ last.ret = None

\* C20 (TTL metadata is replaced with the row): after any sequence of sets on
\* an id the expiry of the row is that of the last set alone: if it resolved to
\* no TTL the row has no TTL cell and a get returns its blob at every later
\* time; if it resolved to a TTL the cells are stamped that write's T + ttl and
\* a get returns the blob up to then and absent after; whatever row the set
\* replaced.
C20_ExpiryOfLastSet ==
    \A id \in OpIds :
        written[id] # None =>
            /\ ttl_column \in DOMAIN rows[id] <=> TTLOf(id) # None
            /\ TTLOf(id) # None =>
                   \A c \in DOMAIN rows[id] :
                       rows[id][c].timestamp = W(id).t + total_ticks(TTLOf(id))
            /\ (GetReturned(id) /\ Len(Blob(id)) <= Capacity) =>
                   IF Unexpired(id)
                   THEN last.status = "ok" /\ last.ret = Some(W(id).data)
                   ELSE last.status = "ok" /\ last.ret = None

\* a set without TTL has replaced a row with a TTL cell and its blob is read
\* at a later time
C20_Witness ==
    \E id \in OpIds :
        /\ written[id] # None
        /\ W(id).over = "ttl"
        /\ TTLOf(id) = None
        /\ now > W(id).t
        /\ GetReturned(id)
        /\ last.ret = Some(W(id).data)

====
